---- MODULE Spec2Model ----
\* Verification model of the KERI direct-mode demo (src/src/bin.rs) and of the
\* event fold (src/src/event/mod.rs).  One local identifier (LogState `i`) and
\* its view `they` of the remote identifier; the operations are the methods of
\* LogState and the fold of a remote event into `they`.  The single-value
\* table of src/src/database/lmdb.rs is modelled beside them, with its own
\* variables and its own specification.
EXTENDS Integers, Sequences, FiniteSets, TLC

\* ------------------------------------------------------------------ bounds
\* Remote events carry sequence numbers 0..MaxSn.
MaxSn == 2
\* Key pairs the local generator can produce are numbered 1..MaxKeys.
MaxKeys == 3
\* At most MaxRcts receipts are held in sigs_map and escrow_sigs together.
MaxRcts == 2
\* The values written to the store are numbered 1..MaxStoreVal.
MaxStoreVal == 2
\* The width in bits the u64 sequence number is scaled to: sn ranges over
\* 0..U64Max and sn + 1 is computed modulo U64Mod.
U64Width == 3

VARIABLES log, sigs_map, state, keypair, next_keypair, escrow_sigs, they, last_op,
          table, writer, store_op

\* The variables of the LogState and of the receive loop, and those of the
\* single-value table.
ls_vars == <<log, sigs_map, state, keypair, next_keypair, escrow_sigs, they, last_op>>
store_vars == <<table, writer, store_op>>

vars == <<log, sigs_map, state, keypair, next_keypair, escrow_sigs, they, last_op,
          table, writer, store_op>>

\* ------------------------------------------------------- values and primitives
\* u64: the modulus of its arithmetic and its largest value.
U64Mod == 2 ^ U64Width
U64Max == U64Mod - 1

\* IdentifierPrefix::default(): the prefix of an identifier before inception.
Unset == <<>>

\* SelfAddressing::Blake3_256.derive(bytes): a collision-free digest.
Digest(bytes) == <<"E", bytes>>

\* SelfAddressingPrefix::default(): the digest field of a default KeyConfig.
NoDigest == <<>>

\* A digest that is the digest of nothing the model serializes.
BadDigest == Digest(<<"garbage">>)

\* Basic::Ed25519.derive(pk).to_str().as_bytes(): the text form of a public key.
KeyBytes(pk) == <<"D", pk>>

\* ed.sign(data, sk): key pair k has public half k and secret half k.
Sign(data, sk) == <<"sig", sk, data>>

\* Ed25519 verification of a signature over data under public key pk.
SigVerify(pk, data, sig) == sig = Sign(data, pk)

\* AttachedSignaturePrefix::new(code, signature, index).
AttachedSig(sig, idx) == [index |-> idx, signature |-> sig]

KeyConfig(thr, keys, nxt) ==
  [threshold |-> thr, public_keys |-> keys, threshold_key_digest |-> nxt]

\* KeyConfig::default().
DefaultKeyConfig == KeyConfig(0, <<>>, NoDigest)

\* IdentifierState::default().
DefaultState ==
  [prefix |-> Unset, sn |-> 0, last |-> <<>>, current |-> DefaultKeyConfig]

\* The empty seal of an event that is no receipt.
NoSeal == [prefix |-> Unset, event_digest |-> NoDigest]

\* Event { prefix, sn, event_data }, the variants of EventData flattened into
\* one record shape: ilk names the variant, the other variants' fields are empty.
Event(pfx, n, ilk, kc, prev, rdig, seal) ==
  [prefix |-> pfx, sn |-> n,
   event_data |-> [ilk |-> ilk, key_config |-> kc, previous_event_hash |-> prev,
                   receipted_event_digest |-> rdig,
                   validator_location_seal |-> seal]]

IcpEvent(pfx, n, kc) == Event(pfx, n, "icp", kc, NoDigest, NoDigest, NoSeal)
RotEvent(pfx, n, kc, prev) == Event(pfx, n, "rot", kc, prev, NoDigest, NoSeal)
IxnEvent(pfx, n) == Event(pfx, n, "ixn", DefaultKeyConfig, NoDigest, NoDigest, NoSeal)
VrcEvent(pfx, n, rdig, seal) == Event(pfx, n, "vrc", DefaultKeyConfig, NoDigest, rdig, seal)

\* Event::to_message(format): the event with its serialization format.
to_message(ev) == [event |-> ev, format |-> "JSON"]

\* EventMessage::serialize(): the canonical bytes of the message.
Serialize(em) == <<"ser", em.event>>

\* EventMessage::sign(signatures).
sign(em, sigs) == [event_message |-> em, signatures |-> sigs]

\* Result<IdentifierState, Error>.
Ok(st) == [ok |-> TRUE, err |-> "", state |-> st]
Err(msg, st) == [ok |-> FALSE, err |-> msg, state |-> st]

\* ------------------------------------------------------------------- the fold
\* EventData::apply_to: the variant's own rule.  Inception installs its key
\* configuration; rotation requires previous_event_hash to be the digest of
\* the prior state's last event and installs its key configuration;
\* interaction and receipt carry the state over.
EventData_apply_to(ev, st) ==
  LET d == ev.event_data IN
  CASE d.ilk = "icp" -> Ok([st EXCEPT !.current = d.key_config])
    [] d.ilk = "rot" ->
         IF d.previous_event_hash # Digest(st.last)
         THEN Err("Last event does not match previous event", st)
         ELSE Ok([st EXCEPT !.current = d.key_config])
    [] OTHER -> Ok(st)

\* Event::apply_to with the sn check of the non-inception arm weakened to
\* "sn has grown": a gap in the sequence passes.
Event_apply_to_gap(ev, st) ==
  IF ev.event_data.ilk = "icp" /\ (st.prefix # Unset \/ ev.sn # 0)
  THEN Err("SN is not correct", st)
  ELSE IF ev.event_data.ilk # "icp" /\ ev.prefix # st.prefix
  THEN Err("Prefix does not match", st)
  ELSE IF ev.event_data.ilk # "icp" /\ ev.sn <= st.sn
  THEN Err("SN is not correct", st)
  ELSE LET r == EventData_apply_to(ev, st) IN
       IF r.ok THEN Ok([r.state EXCEPT !.sn = ev.sn, !.prefix = ev.prefix])
       ELSE r

\* Event::apply_to with the error of the variant's rule dropped (the `?` of
\* line 51 replaced by a fallback to the prior state).
Event_apply_to_swallow(ev, st) ==
  IF ev.event_data.ilk = "icp" /\ (st.prefix # Unset \/ ev.sn # 0)
  THEN Err("SN is not correct", st)
  ELSE IF ev.event_data.ilk # "icp" /\ ev.prefix # st.prefix
  THEN Err("Prefix does not match", st)
  ELSE IF ev.event_data.ilk # "icp" /\ ev.sn # (st.sn + 1) % U64Mod
  THEN Err("SN is not correct", st)
  ELSE LET r == EventData_apply_to(ev, st) IN
       Ok([r.state EXCEPT !.sn = ev.sn, !.prefix = ev.prefix])

\* Event::apply_to: the prefix and sn checks, then the variant's rule, then
\* sn and prefix taken from the event.  state.sn + 1 is u64 arithmetic: it
\* wraps at U64Max (a build with overflow checks aborts there instead, which
\* the step that calls the fold models).
Event_apply_to(ev, st) ==
  IF ev.event_data.ilk = "icp" /\ (st.prefix # Unset \/ ev.sn # 0)
  THEN Err("SN is not correct", st)
  ELSE IF ev.event_data.ilk # "icp" /\ ev.prefix # st.prefix
  THEN Err("Prefix does not match", st)
  ELSE IF ev.event_data.ilk # "icp" /\ ev.sn # (st.sn + 1) % U64Mod
  THEN Err("SN is not correct", st)
  ELSE LET r == EventData_apply_to(ev, st) IN
       IF r.ok THEN Ok([r.state EXCEPT !.sn = ev.sn, !.prefix = ev.prefix])
       ELSE r

\* EventMessage::apply_to: the fold of the event; last becomes the serialized
\* message.
EventMessage_apply_to(em, st) ==
  LET r == Event_apply_to(em.event, st) IN
  IF r.ok THEN Ok([r.state EXCEPT !.last = Serialize(em)]) ELSE r

\* The key indexes for which sigs holds a signature over data that verifies
\* under the key at that index of kc.public_keys (indexes count from 0).
ValidIndexes(kc, data, sigs) ==
  {i \in 0..(Len(kc.public_keys) - 1) :
     \E j \in DOMAIN sigs :
        sigs[j].index = i /\ SigVerify(kc.public_keys[i + 1], data, sigs[j].signature)}

\* The signature gate counting every attached signature that verifies, the
\* same key's twice when it is attached twice.
KeyConfig_verify_count_all(kc, data, sigs) ==
  Cardinality({j \in DOMAIN sigs :
                 /\ sigs[j].index < Len(kc.public_keys)
                 /\ SigVerify(kc.public_keys[sigs[j].index + 1], data, sigs[j].signature)})
    >= kc.threshold

\* The signature gate: distinct valid signatures reach the threshold of kc.
KeyConfig_verify(kc, data, sigs) ==
  Cardinality(ValidIndexes(kc, data, sigs)) >= kc.threshold

\* IdentifierState::verify(message): the message's signatures against the
\* state's current key configuration.
verify(st, msg) ==
  KeyConfig_verify(st.current, Serialize(msg.event_message), msg.signatures)

\* The key configuration verify_and_apply checks the signatures of msg against:
\* the prior state's, or for an inception the event's own.
GateKeyConfig(st, msg) ==
  IF msg.event_message.event.event_data.ilk = "icp"
  THEN msg.event_message.event.event_data.key_config
  ELSE st.current

\* IdentifierState::verify_and_apply(message): the gate, then the fold.
verify_and_apply(st, msg) ==
  IF ~KeyConfig_verify(GateKeyConfig(st, msg), Serialize(msg.event_message),
                       msg.signatures)
  THEN Err("signature threshold not met", st)
  ELSE EventMessage_apply_to(msg.event_message, st)

\* ---------------------------------------------------------- the store's values
\* The keys and values of the single-value table, and the absent value.
StoreKeys == {"ka", "kb"}
StoreValues == 1..MaxStoreVal
NoKey == ""
NoValue == <<>>

\* Option<V>: None, Some(v).
None == <<>>
Some(v) == <<v>>

\* Value::Blob(value.as_ref()) as set and put store it, and the decoding of get.
Blob(v) == <<"blob", v>>
Decode(b) == b[2]

\* The table before anything is written, and the position of no write
\* transaction.
EmptyTable == [k \in StoreKeys |-> NoValue]
NoWriter == [pc |-> "idle", key |-> NoKey, value |-> 0, txn |-> EmptyTable]

\* The last call of the table that returned: its arguments (value is None for
\* a call that takes none), its result, and for get the value it returned.
StoreOp(op, k, v, res, out) ==
  [op |-> op, key |-> k, value |-> v, res |-> res, out |-> out]

\* ------------------------------------------------------------------- LogState
\* The inception data's key configuration as LogState::new and rotate build
\* it: threshold 1, the one signing key, the digest of the next key's text.
OwnKeyConfig(kp, nkp) == KeyConfig(1, <<kp>>, Digest(KeyBytes(nkp)))

\* The self-addressing prefix of an inception: the digest of its inception data.
InceptionPrefix(kc) == Digest(<<"icp", kc>>)

\* LogState::new up to the signed inception message.
InceptionMessage(kp, nkp) ==
  LET icp_m == to_message(IcpEvent(InceptionPrefix(OwnKeyConfig(kp, nkp)), 0,
                                   OwnKeyConfig(kp, nkp)))
  IN sign(icp_m, <<AttachedSig(Sign(Serialize(icp_m), kp), 0)>>)

\* LogState::rotate up to the signed rotation message: the promoted key kp
\* signs a rotation that commits to the fresh key nkp.
RotationMessage(st, kp, nkp) ==
  LET ev == to_message(RotEvent(st.prefix, (st.sn + 1) % U64Mod,
                                OwnKeyConfig(kp, nkp), Digest(st.last)))
  IN sign(ev, <<AttachedSig(Sign(Serialize(ev), kp), 0)>>)

\* add_sig without the call of validator.verify: a receipt whose seal
\* matches is recorded whatever its signatures.
add_sig_unverified(lg, st, validator, sigs) ==
  LET ev == sigs.event_message.event
      rct == ev.event_data
  IN IF rct.ilk # "vrc" THEN "not a receipt"
     ELSE IF ev.sn + 1 > Len(lg) THEN "incorrect receipt sn"
     ELSE LET event == lg[ev.sn + 1] IN
          IF ev.prefix = st.prefix
             /\ rct.receipted_event_digest = Digest(Serialize(event.event_message))
             /\ rct.validator_location_seal.prefix = validator.prefix
          THEN IF rct.validator_location_seal.event_digest = Digest(validator.last)
               THEN "recorded"
               ELSE "escrowed"
          ELSE "incorrect receipt binding"

\* add_sig without the comparison of the seal's digest: every bound receipt
\* goes on to verification, none to escrow.
add_sig_no_escrow(lg, st, validator, sigs) ==
  LET ev == sigs.event_message.event
      rct == ev.event_data
  IN IF rct.ilk # "vrc" THEN "not a receipt"
     ELSE IF ev.sn + 1 > Len(lg) THEN "incorrect receipt sn"
     ELSE LET event == lg[ev.sn + 1] IN
          IF ev.prefix = st.prefix
             /\ rct.receipted_event_digest = Digest(Serialize(event.event_message))
             /\ rct.validator_location_seal.prefix = validator.prefix
          THEN IF verify(validator, sign(event.event_message, sigs.signatures))
               THEN "recorded"
               ELSE "signature threshold not met"
          ELSE "incorrect receipt binding"

\* add_sig binding the receipted digest to the identifier's latest event
\* (state.last) instead of the log entry at the receipt's sn.
add_sig_last_event(lg, st, validator, sigs) ==
  LET ev == sigs.event_message.event
      rct == ev.event_data
  IN IF rct.ilk # "vrc" THEN "not a receipt"
     ELSE IF ev.sn + 1 > Len(lg) THEN "incorrect receipt sn"
     ELSE LET event == lg[ev.sn + 1] IN
          IF ev.prefix = st.prefix
             /\ rct.receipted_event_digest = Digest(st.last)
             /\ rct.validator_location_seal.prefix = validator.prefix
          THEN IF rct.validator_location_seal.event_digest = Digest(validator.last)
               THEN IF verify(validator, sign(event.event_message, sigs.signatures))
                    THEN "recorded"
                    ELSE "signature threshold not met"
               ELSE "escrowed"
          ELSE "incorrect receipt binding"

\* The outcome of LogState::add_sig(validator, sigs): "recorded", "escrowed",
\* or the error it returns.
add_sig(lg, st, validator, sigs) ==
  LET ev == sigs.event_message.event
      rct == ev.event_data
  IN IF rct.ilk # "vrc" THEN "not a receipt"
     ELSE IF ev.sn + 1 > Len(lg) THEN "incorrect receipt sn"
     ELSE LET event == lg[ev.sn + 1] IN
          IF ev.prefix = st.prefix
             /\ rct.receipted_event_digest = Digest(Serialize(event.event_message))
             /\ rct.validator_location_seal.prefix = validator.prefix
          THEN IF rct.validator_location_seal.event_digest = Digest(validator.last)
               THEN IF verify(validator, sign(event.event_message, sigs.signatures))
                    THEN "recorded"
                    ELSE "signature threshold not met"
               ELSE "escrowed"
          ELSE "incorrect receipt binding"

\* The number of receipts held in sigs_map and escrow_sigs.
RECURSIVE StoredIn(_, _)
StoredIn(m, n) == IF n < 0 THEN 0 ELSE Len(m[n]) + StoredIn(m, n - 1)
Stored == StoredIn(sigs_map, MaxSn) + Len(escrow_sigs)

\* The keys a call of the key generator may return: none in use so far.
FreshKeys == (next_keypair + 1)..MaxKeys

Op(op, res) == [op |-> op, res |-> res]

\* LogState::new(): two key pairs, the signed inception, its fold into the
\* default state.
Init ==
  LET sigged == InceptionMessage(1, 2)
      s0 == verify_and_apply(DefaultState, sigged)
  IN /\ s0.ok
     /\ log = <<sigged>>
     /\ sigs_map = [n \in 0..MaxSn |-> <<>>]
     /\ state = s0.state
     /\ keypair = 1
     /\ next_keypair = 2
     /\ escrow_sigs = <<>>
     /\ they = DefaultState
     /\ last_op = Op("new", "ok")
     /\ table = EmptyTable
     /\ writer = NoWriter
     /\ store_op = StoreOp("open", NoKey, None, "Ok", None)

\* LogState::rotate() with the push onto the log moved before the call of
\* verify_and_apply: a rejected rotation stays in the log.
Rotate_push_first ==
  /\ UNCHANGED store_vars
  /\ \E crypto_ok \in BOOLEAN, fresh \in FreshKeys :
    LET rot == RotationMessage(state, next_keypair, fresh)
        r == verify_and_apply(state, rot)
    IN IF ~crypto_ok
       THEN /\ last_op' = Op("rotate", "CryptoError")
            /\ UNCHANGED <<log, sigs_map, state, keypair, next_keypair, escrow_sigs, they>>
       ELSE IF ~r.ok
       THEN /\ last_op' = Op("rotate", r.err)
            /\ log' = Append(log, rot)
            /\ UNCHANGED <<sigs_map, state, keypair, next_keypair, escrow_sigs, they>>
       ELSE /\ state' = r.state
            /\ log' = Append(log, rot)
            /\ keypair' = next_keypair
            /\ next_keypair' = fresh
            /\ last_op' = Op("rotate", "ok")
            /\ UNCHANGED <<sigs_map, escrow_sigs, they>>

\* LogState::rotate() with the key material replaced before the call of
\* verify_and_apply: a refused rotation has already promoted the next key.
Rotate_keys_first ==
  /\ UNCHANGED store_vars
  /\ \E crypto_ok \in BOOLEAN, fresh \in FreshKeys :
    LET rot == RotationMessage(state, next_keypair, fresh)
        r == verify_and_apply(state, rot)
    IN IF ~crypto_ok
       THEN /\ last_op' = Op("rotate", "CryptoError")
            /\ UNCHANGED <<log, sigs_map, state, keypair, next_keypair, escrow_sigs, they>>
       ELSE IF ~r.ok
       THEN /\ last_op' = Op("rotate", r.err)
            /\ keypair' = next_keypair
            /\ next_keypair' = fresh
            /\ UNCHANGED <<log, sigs_map, state, escrow_sigs, they>>
       ELSE /\ state' = r.state
            /\ log' = Append(log, rot)
            /\ keypair' = next_keypair
            /\ next_keypair' = fresh
            /\ last_op' = Op("rotate", "ok")
            /\ UNCHANGED <<sigs_map, escrow_sigs, they>>

\* LogState::rotate() with the fresh next key pair stored as soon as it is
\* generated: a refused rotation has already replaced next_keypair.
Rotate_next_first ==
  /\ UNCHANGED store_vars
  /\ \E crypto_ok \in BOOLEAN, fresh \in FreshKeys :
    LET rot == RotationMessage(state, next_keypair, fresh)
        r == verify_and_apply(state, rot)
    IN IF ~crypto_ok
       THEN /\ last_op' = Op("rotate", "CryptoError")
            /\ UNCHANGED <<log, sigs_map, state, keypair, next_keypair, escrow_sigs, they>>
       ELSE IF ~r.ok
       THEN /\ last_op' = Op("rotate", r.err)
            /\ next_keypair' = fresh
            /\ UNCHANGED <<log, sigs_map, state, keypair, escrow_sigs, they>>
       ELSE /\ state' = r.state
            /\ log' = Append(log, rot)
            /\ keypair' = next_keypair
            /\ next_keypair' = fresh
            /\ last_op' = Op("rotate", "ok")
            /\ UNCHANGED <<sigs_map, escrow_sigs, they>>

\* LogState::rotate(): crypto_ok is whether key generation and signing succeed.
Rotate ==
  /\ UNCHANGED store_vars
  /\ \E crypto_ok \in BOOLEAN, fresh \in FreshKeys :
    LET rot == RotationMessage(state, next_keypair, fresh)
        r == verify_and_apply(state, rot)
    IN IF ~crypto_ok
       THEN /\ last_op' = Op("rotate", "CryptoError")
            /\ UNCHANGED <<log, sigs_map, state, keypair, next_keypair, escrow_sigs, they>>
       ELSE IF ~r.ok
       THEN /\ last_op' = Op("rotate", r.err)
            /\ UNCHANGED <<log, sigs_map, state, keypair, next_keypair, escrow_sigs, they>>
       ELSE /\ state' = r.state
            /\ log' = Append(log, rot)
            /\ keypair' = next_keypair
            /\ next_keypair' = fresh
            /\ last_op' = Op("rotate", "ok")
            /\ UNCHANGED <<sigs_map, escrow_sigs, they>>

\* add_sig with the escrow push moved out of the binding check: a receipt
\* that fails a binding is escrowed as well as rejected.
AddSig_escrow_rejected(sigs) ==
  LET out == add_sig(log, state, they, sigs)
      n == sigs.event_message.event.sn
  IN /\ out \in {"recorded", "escrowed", "incorrect receipt binding"} => Stored < MaxRcts
     /\ sigs_map' = IF out = "recorded"
                    THEN [sigs_map EXCEPT ![n] = Append(@, sigs)]
                    ELSE sigs_map
     /\ escrow_sigs' = IF out \in {"escrowed", "incorrect receipt binding"}
                       THEN Append(escrow_sigs, sigs)
                       ELSE escrow_sigs
     /\ last_op' = Op("add_sig", IF out \in {"recorded", "escrowed"} THEN "ok" ELSE out)
     /\ UNCHANGED <<log, state, keypair, next_keypair, they>>
     /\ UNCHANGED store_vars

\* LogState::add_sig(&they, sigs), as the receive loop calls it; a receipt
\* is stored only while fewer than MaxRcts are held.
AddSig(sigs) ==
  LET out == add_sig(log, state, they, sigs)
      n == sigs.event_message.event.sn
  IN /\ out \in {"recorded", "escrowed"} => Stored < MaxRcts
     /\ sigs_map' = IF out = "recorded"
                    THEN [sigs_map EXCEPT ![n] = Append(@, sigs)]
                    ELSE sigs_map
     /\ escrow_sigs' = IF out = "escrowed" THEN Append(escrow_sigs, sigs)
                       ELSE escrow_sigs
     /\ last_op' = Op("add_sig", IF out \in {"recorded", "escrowed"} THEN "ok" ELSE out)
     /\ UNCHANGED <<log, state, keypair, next_keypair, they>>
     /\ UNCHANGED store_vars

\* The receive loop's other branch: they = they.verify_and_apply(&ev).  On an
\* error the loop's unwrap aborts the process; the step keeps `they` and
\* records the error, so that the calls after a failed one are covered too.
TheyApply(ev) ==
  LET r == verify_and_apply(they, ev)
  IN /\ they' = IF r.ok THEN r.state ELSE they
     /\ last_op' = Op("verify_and_apply", IF r.ok THEN "ok" ELSE r.err)
     /\ UNCHANGED <<log, sigs_map, state, keypair, next_keypair, escrow_sigs>>
     /\ UNCHANGED store_vars

\* ------------------------------------------------------------------- inputs
\* Key configurations a remote inception may declare: one key with threshold
\* 1, two keys with threshold 2.
RemoteIcpKCs ==
  {KeyConfig(1, <<101>>, Digest(KeyBytes(102))),
   KeyConfig(2, <<101, 102>>, Digest(KeyBytes(103)))}

\* Key configurations a remote rotation may declare: the key the one-key
\* inception committed to, and a key nothing committed to.
RemoteRotKCs ==
  {KeyConfig(1, <<102>>, Digest(KeyBytes(103))),
   KeyConfig(1, <<104>>, Digest(KeyBytes(103)))}

\* Prefixes an event that is no inception may carry when it is sent to a
\* holder of state st: st's own, the local identifier's, none.
EventPrefixes(st) == {st.prefix, state.prefix, Unset}

IcpEvents ==
  UNION {{IcpEvent(p, n, kc) : p \in {InceptionPrefix(kc), Unset}, n \in 0..MaxSn} :
         kc \in RemoteIcpKCs}

RotEvents(st) ==
  {RotEvent(p, n, kc, h) : p \in EventPrefixes(st), n \in 0..MaxSn,
                           kc \in RemoteRotKCs, h \in {Digest(st.last), BadDigest}}

IxnEvents(st) == {IxnEvent(p, n) : p \in EventPrefixes(st), n \in 0..MaxSn}

VrcEvents(st) ==
  {VrcEvent(p, n, BadDigest, NoSeal) : p \in EventPrefixes(st), n \in 0..MaxSn}

\* The events the fold may be given in state st.
FoldEvents(st) == IcpEvents \cup RotEvents(st) \cup IxnEvents(st) \cup VrcEvents(st)

\* One signature per key of keys over data, the i-th at index i - 1.
SigsBy(data, keys) ==
  [i \in 1..Len(keys) |-> AttachedSig(Sign(data, keys[i]), i - 1)]

\* The signature lists a remote message em may carry when it is sent to a
\* holder of state st: by every key of the prior configuration, by its first
\* key alone, by the first key twice, by the event's own keys, by a key of
\* neither, by the right key over other bytes, and none.
SigChoices(em, st) ==
  LET data == Serialize(em)
      prior == st.current.public_keys
      own == em.event.event_data.key_config.public_keys
  IN {<<>>, SigsBy(data, prior), SigsBy(data, own), SigsBy(data, <<105>>),
      SigsBy(<<"other">>, own)}
     \cup (IF prior = <<>> THEN {}
           ELSE {SigsBy(data, <<prior[1]>>), SigsBy(data, <<prior[1], prior[1]>>),
                 <<AttachedSig(Sign(data, prior[1]), 0), AttachedSig(Sign(data, prior[1]), 0)>>})
     \cup (IF own = <<>> THEN {}
           ELSE {SigsBy(data, <<own[1]>>),
                 <<AttachedSig(Sign(data, own[1]), 0), AttachedSig(Sign(data, own[1]), 0)>>})

\* The signed messages the remote peer may send while the local view of it
\* is st; the receive loop folds every message that is no receipt.
RemoteMessages(st) ==
  UNION {{sign(to_message(ev), sg) : sg \in SigChoices(to_message(ev), st)} :
         ev \in IcpEvents \cup RotEvents(st) \cup IxnEvents(st)}

\* The fold branch of the receive loop under every remote message, and the
\* local rotation.
FoldNext ==
  \/ Rotate
  \/ \E m \in RemoteMessages(they) : TheyApply(m)

SpecFold == Init /\ [][FoldNext]_vars

\* The remote peer of the demo: its inception with one key, and from the
\* local view st of it the interaction or rotation it issues next.
PeerKeyConfig == KeyConfig(1, <<101>>, Digest(KeyBytes(102)))
PeerRotKeyConfig == KeyConfig(1, <<102>>, Digest(KeyBytes(103)))
PeerIcp == to_message(IcpEvent(InceptionPrefix(PeerKeyConfig), 0, PeerKeyConfig))
PeerIxn(st) == to_message(IxnEvent(st.prefix, st.sn + 1))
PeerRot(st) ==
  to_message(RotEvent(st.prefix, st.sn + 1, PeerRotKeyConfig, Digest(st.last)))

\* The messages the peer sends: its inception signed and unsigned; its next
\* interaction signed by the keys in force; its next rotation signed by the
\* keys in force and by the keys it promotes; a rotation off the chain.
PeerMessages(st) ==
  {sign(PeerIcp, SigsBy(Serialize(PeerIcp), <<101>>)), sign(PeerIcp, <<>>)}
  \cup (IF st.sn >= MaxSn THEN {}
        ELSE {sign(PeerIxn(st), SigsBy(Serialize(PeerIxn(st)), st.current.public_keys)),
              sign(PeerRot(st), SigsBy(Serialize(PeerRot(st)), st.current.public_keys)),
              sign(PeerRot(st), SigsBy(Serialize(PeerRot(st)), <<102>>)),
              sign(to_message(RotEvent(st.prefix, st.sn + 1, PeerRotKeyConfig, BadDigest)),
                   SigsBy(Serialize(to_message(RotEvent(st.prefix, st.sn + 1,
                                                        PeerRotKeyConfig, BadDigest))),
                          st.current.public_keys))})

\* The digests a receipt's seal may carry while the local view of the
\* validator is st: of st's last event, of the peer's inception, of the
\* rotation the peer may issue next, of nothing.
SealDigests(st) ==
  {Digest(st.last), Digest(Serialize(PeerIcp)), Digest(Serialize(PeerRot(st))),
   BadDigest}

\* The digests a receipt may carry for the receipted event.
ReceiptedDigests ==
  {Digest(Serialize(log[k].event_message)) : k \in DOMAIN log} \cup {BadDigest}

\* The bytes a receipt of the log event at sn n is signed over.
ReceiptedBytes(n) ==
  IF n + 1 \in DOMAIN log THEN Serialize(log[n + 1].event_message) ELSE <<"none">>

\* The signature lists a receipt of the log event at sn n may carry: by either
\* key of the peer over the receipted event's bytes, by the validator's keys
\* over other bytes.
ReceiptSigChoices(n, st) ==
  {SigsBy(ReceiptedBytes(n), <<101>>), SigsBy(ReceiptedBytes(n), <<102>>),
   SigsBy(<<"other">>, st.current.public_keys)}

Receipt(p, n, rd, sp, sd, sg) ==
  sign(to_message(VrcEvent(p, n, rd, [prefix |-> sp, event_digest |-> sd])), sg)

\* Every receipt over the fields above for an sn the log holds, and two for
\* the first sn it does not hold: what add_sig is examined on.
Receipts(st) ==
  UNION {{Receipt(p, n, rd, sp, sd, sg) :
            p \in {state.prefix, st.prefix}, rd \in ReceiptedDigests,
            sp \in {st.prefix, state.prefix}, sd \in SealDigests(st),
            sg \in ReceiptSigChoices(n, st)} :
         n \in 0..(Len(log) - 1)}
  \cup {Receipt(state.prefix, Len(log), rd, st.prefix, Digest(st.last),
                SigsBy(ReceiptedBytes(Len(log)), st.current.public_keys)) :
          rd \in ReceiptedDigests}

\* The receipts the peer sends of the log event at sn n.  The honest ones are
\* bound to the log and to the peer and are sealed to and signed under one key
\* state of the peer: the one the local view holds, its inception, or the
\* rotation it issues next.  The others break one thing: the signer, the
\* receipt's prefix, the receipted digest, the seal's prefix, or the sn.
PeerPrefix == InceptionPrefix(PeerKeyConfig)

PeerReceipts(st) ==
  UNION {{Receipt(state.prefix, n, Digest(ReceiptedBytes(n)), PeerPrefix,
                  Digest(st.last), SigsBy(ReceiptedBytes(n), st.current.public_keys)),
          Receipt(state.prefix, n, Digest(ReceiptedBytes(n)), PeerPrefix,
                  Digest(Serialize(PeerIcp)), SigsBy(ReceiptedBytes(n), <<101>>)),
          Receipt(state.prefix, n, Digest(ReceiptedBytes(n)), PeerPrefix,
                  Digest(Serialize(PeerRot(st))), SigsBy(ReceiptedBytes(n), <<102>>)),
          Receipt(state.prefix, n, Digest(ReceiptedBytes(n)), PeerPrefix,
                  Digest(st.last), SigsBy(ReceiptedBytes(n), <<105>>)),
          Receipt(PeerPrefix, n, Digest(ReceiptedBytes(n)), PeerPrefix,
                  Digest(st.last), SigsBy(ReceiptedBytes(n), st.current.public_keys)),
          Receipt(state.prefix, n, BadDigest, PeerPrefix,
                  Digest(st.last), SigsBy(ReceiptedBytes(n), st.current.public_keys)),
          Receipt(state.prefix, n, Digest(ReceiptedBytes(n)), state.prefix,
                  Digest(st.last), SigsBy(ReceiptedBytes(n), st.current.public_keys))} :
         n \in 0..Len(log)}

\* What add_sig is handed: a receipt, or a message that is none.
AddSigInputs(st) == PeerReceipts(st) \cup {log[1]}

Next ==
  \/ Rotate
  \/ \E sigs \in AddSigInputs(they) : AddSig(sigs)
  \/ \E m \in PeerMessages(they) : TheyApply(m)

Spec == Init /\ [][Next]_vars

\* ------------------------------------------------------------------- claims
IsIcp(ev) == ev.event_data.ilk = "icp"
SeqErrors == {"SN is not correct", "Prefix does not match"}

\* The sn and prefix conditions under which the fold may accept ev in st.
InSequence(ev, st) ==
  IF IsIcp(ev) THEN st.prefix = Unset /\ ev.sn = 0
  ELSE ev.prefix = st.prefix /\ ev.sn = st.sn + 1

\* C1 (sequencing): in every state st the program holds, Event::apply_to
\* returns an error for every non-inception event whose sn is not st.sn + 1 or
\* whose prefix is not st.prefix, and for every inception when st.prefix is set
\* or the event's sn is not 0; it passes the sn and prefix checks exactly for
\* an inception with sn 0 on the unset state and for a non-inception event with
\* st's prefix and sn = st.sn + 1.
C1_Sequencing ==
  \A st \in {they, state} : \A ev \in FoldEvents(st) :
    LET r == Event_apply_to(ev, st) IN
    /\ (~IsIcp(ev) /\ (ev.sn # st.sn + 1 \/ ev.prefix # st.prefix)) => ~r.ok
    /\ (IsIcp(ev) /\ (st.prefix # Unset \/ ev.sn # 0)) => ~r.ok
    /\ InSequence(ev, st) <=> (r.ok \/ r.err \notin SeqErrors)

\* C1 witness: the view of the peer has advanced to sn 1 and an event out of
\* sequence has just been rejected.
C1_Witness ==
  they.sn = 1 /\ they.prefix # Unset
  /\ last_op = Op("verify_and_apply", "SN is not correct")

\* The log is non-empty, starts with the inception, holds at index i the event
\* with sn i, and is as long as state.sn + 1.
LogShape ==
  /\ Len(log) >= 1
  /\ IsIcp(log[1].event_message.event)
  /\ \A i \in DOMAIN log : log[i].event_message.event.sn = i - 1
  /\ Len(log) = state.sn + 1

\* The rotation rotate builds carries the sn of the log index it is pushed
\* at, and its fold leaves state.sn at that index.
RotationFits ==
  \A fresh \in FreshKeys :
    LET rot == RotationMessage(state, next_keypair, fresh)
        r == EventMessage_apply_to(rot.event_message, state)
    IN /\ rot.event_message.event.sn = Len(log)
       /\ r.ok => r.state.sn = Len(log)

\* C2 (gap-free append-only log): in every LogState reached by new() and any
\* sequence of rotate and add_sig calls, successful or failed, the log is
\* non-empty, the event at log index i has sn i (index 0 the inception), the
\* log is as long as state.sn + 1, the rotation rotate would push keeps it so,
\* and no step changes or removes an entry the log already holds.
C2_GapFreeLog ==
  /\ [](LogShape /\ RotationFits)
  /\ [][/\ Len(log') >= Len(log)
        /\ SubSeq(log', 1, Len(log)) = log]_vars

\* C2 witness: rotate and add_sig have both been called, a receipt is held,
\* and the last rotate was refused by verify_and_apply.
C2_Witness ==
  /\ last_op = Op("rotate", "signature threshold not met")
  /\ Stored >= 1

\* C3 (chain integrity): in every state st the program holds, a rotation whose
\* previous_event_hash is not the digest of st.last is rejected by the fold,
\* bare or behind the signature gate and whatever its signatures; and the
\* rotation that rotate builds carries the digest of state.last as it is when
\* rotate is called.
C3_ChainIntegrity ==
  /\ \A st \in {they, state} : \A ev \in RotEvents(st) :
       ev.event_data.previous_event_hash # Digest(st.last) =>
         /\ ~Event_apply_to(ev, st).ok
         /\ ~EventMessage_apply_to(to_message(ev), st).ok
         /\ \A sg \in SigChoices(to_message(ev), st) :
              ~verify_and_apply(st, sign(to_message(ev), sg)).ok
  /\ \A fresh \in FreshKeys :
       RotationMessage(state, next_keypair, fresh).event_message.event.event_data.previous_event_hash
         = Digest(state.last)

\* C3 witness: the view of the peer is past its inception and a rotation off
\* the chain, with signatures that pass the gate, has just been rejected.
C3_Witness ==
  /\ they.sn >= 1
  /\ last_op = Op("verify_and_apply", "Last event does not match previous event")

\* The number of distinct key indexes among the signatures of msg that verify,
\* each under the key at its declared index of kc, over the message's bytes.
DistinctValid(kc, msg) ==
  Cardinality(
    {msg.signatures[j].index :
       j \in {k \in DOMAIN msg.signatures :
                /\ msg.signatures[k].index < Len(kc.public_keys)
                /\ msg.signatures[k].signature
                     = Sign(Serialize(msg.event_message),
                            kc.public_keys[msg.signatures[k].index + 1])}})

\* C4 as stated (threshold gate): verify_and_apply succeeds iff the number of
\* distinct valid signatures is at least the threshold of the applicable key
\* configuration.
C4_Original ==
  \A m \in RemoteMessages(they) :
    verify_and_apply(they, m).ok
      <=> DistinctValid(GateKeyConfig(they, m), m) >= GateKeyConfig(they, m).threshold

\* C4 as amended: verify_and_apply succeeds iff the number of distinct valid
\* signatures is at least the threshold of the applicable key configuration
\* (the inception's own, otherwise the prior state's current one) and the fold
\* of the event into the prior state succeeds; with fewer it is rejected
\* whatever the fold would do, and a signature attached twice counts once.
C4_ThresholdGate ==
  \A m \in RemoteMessages(they) :
    LET kc == GateKeyConfig(they, m)
        r == verify_and_apply(they, m)
    IN /\ r.ok <=> /\ DistinctValid(kc, m) >= kc.threshold
                   /\ EventMessage_apply_to(m.event_message, they).ok
       /\ DistinctValid(kc, m) < kc.threshold => r.err = "signature threshold not met"
       /\ (Len(m.signatures) = 2 /\ m.signatures[1] = m.signatures[2] /\ kc.threshold = 2)
            => ~r.ok

\* C4 witness: the peer's key configuration asks for two signatures and a
\* message carrying fewer has just been rejected.
C4_Witness ==
  /\ they.current.threshold = 2
  /\ last_op = Op("verify_and_apply", "signature threshold not met")

\* The fields of a receipt r.
RSn(r) == r.event_message.event.sn
RData(r) == r.event_message.event.event_data
RSeal(r) == r.event_message.event.event_data.validator_location_seal

\* The bindings of a receipt r: to the local identifier, to the log event at
\* its sn, to the validator the local view `they` describes.
BoundToPrefix(r) == r.event_message.event.prefix = state.prefix
BoundToEvent(r) ==
  /\ RSn(r) + 1 \in DOMAIN log
  /\ RData(r).receipted_event_digest = Digest(Serialize(log[RSn(r) + 1].event_message))
BoundToValidator(r) == RSeal(r).prefix = they.prefix
SealCurrent(r) == RSeal(r).event_digest = Digest(they.last)
SignedByValidator(r) ==
  /\ RSn(r) + 1 \in DOMAIN log
  /\ DistinctValid(they.current, sign(log[RSn(r) + 1].event_message, r.signatures))
       >= they.current.threshold

FiveHold(r) ==
  /\ BoundToPrefix(r) /\ BoundToEvent(r) /\ BoundToValidator(r)
  /\ SealCurrent(r) /\ SignedByValidator(r)

\* sigs_map after r has been recorded under its sn.
Recorded(r) == [sigs_map EXCEPT ![RSn(r)] = Append(@, r)]

\* C5 (receipt binding): add_sig records a receipt in sigs_map iff all five
\* hold: its prefix is the local identifier's, its receipted digest is the
\* digest of the log event at its sn, its seal's prefix is the validator's,
\* its seal's digest is the digest of the validator's last event, and its
\* signatures verify under the validator's current key configuration; with any
\* one of them broken sigs_map stays as it is.
C5_ReceiptBinding ==
  /\ [](\A r \in Receipts(they) \cup AddSigInputs(they) :
          (add_sig(log, state, they, r) = "recorded") <=> FiveHold(r))
  /\ [][\A r \in AddSigInputs(they) :
          AddSig(r) => sigs_map' = IF FiveHold(r) THEN Recorded(r) ELSE sigs_map]_vars

\* C5 witness: a receipt has been recorded and another one, bound and sealed
\* like it but signed by the wrong key, has just been rejected.
C5_Witness ==
  /\ sigs_map[0] # <<>>
  /\ last_op = Op("add_sig", "signature threshold not met")

\* C6 (escrow outcome): when the receipt's prefix, its receipted digest and its
\* seal's prefix are bound but the seal's digest is not the digest of the
\* validator's last event as the local view holds it, add_sig returns success,
\* appends the receipt to escrow_sigs and leaves sigs_map alone; so a receipt
\* sealed to a key state the view has rotated past is not recorded.
C6_EscrowOutcome ==
  /\ [](\A r \in Receipts(they) \cup AddSigInputs(they) :
          (BoundToPrefix(r) /\ BoundToEvent(r) /\ BoundToValidator(r) /\ ~SealCurrent(r))
            => add_sig(log, state, they, r) = "escrowed")
  /\ [][\A r \in AddSigInputs(they) :
          (/\ AddSig(r)
           /\ BoundToPrefix(r) /\ BoundToEvent(r) /\ BoundToValidator(r)
           /\ ~SealCurrent(r))
            => /\ last_op' = Op("add_sig", "ok")
               /\ escrow_sigs' = Append(escrow_sigs, r)
               /\ sigs_map' = sigs_map]_vars

\* C6 witness: the view of the peer has rotated to the peer's second key, and
\* a receipt sealed to the peer's inception has just been put in escrow while
\* nothing is recorded.
C6_Witness ==
  /\ they.current = PeerRotKeyConfig
  /\ last_op = Op("add_sig", "ok")
  /\ sigs_map[0] = <<>>
  /\ escrow_sigs # <<>>
  /\ RSeal(escrow_sigs[Len(escrow_sigs)]).event_digest = Digest(Serialize(PeerIcp))

\* C7 (idempotent escrow resolution): an escrowed receipt, once the validator
\* state its seal names is the one the local view holds, is accepted into the
\* collection of its sn and removed from the escrow set: no receipt recorded
\* in sigs_map is still in escrow_sigs.
C7_EscrowResolution ==
  \A i \in DOMAIN escrow_sigs : \A n \in DOMAIN sigs_map : \A j \in DOMAIN sigs_map[n] :
    sigs_map[n][j] # escrow_sigs[i]

\* C8 (atomic failure): a call of verify_and_apply that fails leaves the
\* caller's state as it was: a failing rotate leaves state, log, keypair and
\* next_keypair of the LogState unchanged, and a remote event that fails the
\* gate or the fold leaves the view of the peer unchanged.
C8_AtomicFailure ==
  [][/\ (last_op'.op = "rotate" /\ last_op'.res # "ok")
          => UNCHANGED <<state, log, keypair, next_keypair>>
     /\ (last_op'.op = "verify_and_apply" /\ last_op'.res # "ok")
          => they' = they]_vars

\* C8 witness: rotate has just failed in verify_and_apply and the LogState
\* holds what new() gave it.
C8_Witness ==
  /\ last_op = Op("rotate", "signature threshold not met")
  /\ keypair = 1 /\ next_keypair = 2
  /\ log = <<InceptionMessage(1, 2)>>
  /\ state.sn = 0

\* The check of Event::apply_to that ev fails first in state st, if any.
PrefixCheckFails(ev, st) ==
  IF IsIcp(ev) THEN st.prefix # Unset ELSE ev.prefix # st.prefix
SnCheckFails(ev, st) ==
  IF IsIcp(ev) THEN ev.sn # 0 ELSE ev.sn # st.sn + 1

\* A receipt that breaks exactly one binding of add_sig.
BreaksOnlyPrefix(r) == ~BoundToPrefix(r) /\ BoundToEvent(r) /\ BoundToValidator(r)
BreaksOnlyEvent(r) ==
  /\ BoundToPrefix(r) /\ BoundToValidator(r)
  /\ RSn(r) + 1 \in DOMAIN log /\ ~BoundToEvent(r)
BreaksOnlyValidator(r) == BoundToPrefix(r) /\ BoundToEvent(r) /\ ~BoundToValidator(r)

\* C9 (diagnosable rejections): the fold reports a prefix violation when the
\* prefix or initialization check fails and an sn violation only when the
\* sequence number is wrong, also for an inception with sn 0 on an initialized
\* state; add_sig reports different errors for a broken receipt prefix, a
\* broken receipted digest and a broken validator prefix.
C9_Diagnosable ==
  /\ \A ev \in FoldEvents(they) :
       LET r == Event_apply_to(ev, they) IN
       /\ PrefixCheckFails(ev, they) => (~r.ok /\ r.err = "Prefix does not match")
       /\ (~r.ok /\ r.err = "SN is not correct") => SnCheckFails(ev, they)
  /\ \A r1, r2 \in Receipts(they) :
       \/ (BreaksOnlyPrefix(r1) /\ BreaksOnlyEvent(r2))
       \/ (BreaksOnlyPrefix(r1) /\ BreaksOnlyValidator(r2))
       \/ (BreaksOnlyEvent(r1) /\ BreaksOnlyValidator(r2))
       => add_sig(log, state, they, r1) # add_sig(log, state, they, r2)

\* C10 (replay safety): an event the fold has accepted is rejected when it is
\* applied again to the state the fold returned.
C10_ReplaySafety ==
  \A ev \in FoldEvents(they) :
    Event_apply_to(ev, they).ok => ~Event_apply_to(ev, Event_apply_to(ev, they).state).ok


\* C11 (prefix immutability): after an inception has been folded into a state
\* the program holds, every event the fold then accepts leaves the prefix the
\* inception set, and none of them is an inception.
C11_PrefixImmutability ==
  \A e1 \in IcpEvents :
    LET r1 == Event_apply_to(e1, they) IN
    r1.ok => \A e2 \in FoldEvents(r1.state) :
               LET r2 == Event_apply_to(e2, r1.state) IN
               r2.ok => (r2.state.prefix = r1.state.prefix /\ ~IsIcp(e2))


\* ------------------------------------------------------- two identifiers
\* A LogState as a value: the fields rotate and make_rct read.
LogStateOf(lg, st, kp, nkp) ==
  [log |-> lg, state |-> st, keypair |-> kp, next_keypair |-> nkp]

\* LogState::new() with the key pairs kp and nkp.
LogState_new(kp, nkp) ==
  LET sigged == InceptionMessage(kp, nkp)
  IN LogStateOf(<<sigged>>, verify_and_apply(DefaultState, sigged).state, kp, nkp)

\* The local identifier's LogState.
Self == LogStateOf(log, state, keypair, next_keypair)

\* The remote identifier's LogState: new() with the key pairs 101 and 102.
Peer == LogState_new(101, 102)

\* The LogState rotate leaves behind once its rotation has been folded into
\* the state: lines 212-217 past the signature gate.
Promoted(ls, fresh) ==
  LET rot == RotationMessage(ls.state, ls.next_keypair, fresh)
  IN LogStateOf(Append(ls.log, rot),
                EventMessage_apply_to(rot.event_message, ls.state).state,
                ls.next_keypair, fresh)

\* make_rct addressing the receipt by its issuer: the issuer's prefix and sn.
make_rct_own_address(ls, em) ==
  Receipt(ls.state.prefix, ls.state.sn, Digest(Serialize(em)),
          ls.state.prefix, Digest(ls.state.last),
          <<AttachedSig(Sign(Serialize(em), ls.keypair), 0)>>)

\* LogState::make_rct(event): prefix and sn of the receipted event, the digest
\* of its bytes, a seal of the issuer's prefix and last event, and the
\* issuer's signature over the receipted event's bytes.
make_rct(ls, em) ==
  Receipt(em.event.prefix, em.event.sn, Digest(Serialize(em)),
          ls.state.prefix, Digest(ls.state.last),
          <<AttachedSig(Sign(Serialize(em), ls.keypair), 0)>>)

\* The receipt b makes of each event of a's log carries a's prefix and the
\* event's sn, and a.add_sig records it when a's view of b is b's state.
RoundTrip(a, b) ==
  \A k \in DOMAIN a.log :
    LET rct == make_rct(b, a.log[k].event_message) IN
    /\ rct.event_message.event.prefix = a.state.prefix
    /\ rct.event_message.event.prefix # b.state.prefix
    /\ rct.event_message.event.sn = k - 1
    /\ add_sig(a.log, a.state, b.state, rct) = "recorded"

\* C12 (receipt round trip): for the local identifier A and the peer B, each
\* as it is after new() or as rotate leaves it once its rotation is folded,
\* and A's view of B equal to B's state, the receipt B makes with make_rct of
\* the event at index k of A's log carries A's prefix and sn k, and A.add_sig
\* records it; the call of add_sig in the receive loop puts it in sigs_map
\* under k and not in escrow.
C12_RoundTrip ==
  /\ [](\A a \in {Self} \cup {Promoted(Self, f) : f \in FreshKeys} :
        \A b \in {Peer, Promoted(Peer, 103)} : RoundTrip(a, b))
  /\ [][\A k \in DOMAIN log :
          LET rct == make_rct(Peer, log[k].event_message) IN
          (they = Peer.state /\ AddSig(rct))
            => /\ sigs_map' = [sigs_map EXCEPT ![k - 1] = Append(@, rct)]
               /\ escrow_sigs' = escrow_sigs
               /\ last_op' = Op("add_sig", "ok")]_vars

\* C12 witness: the view of the peer is the peer's own state after new(), and
\* the receipt the peer makes of the local inception has just been recorded
\* under sn 0.
C12_Witness ==
  /\ they = Peer.state
  /\ last_op = Op("add_sig", "ok")
  /\ sigs_map[0] # <<>>
  /\ sigs_map[0][Len(sigs_map[0])] = make_rct(Peer, log[1].event_message)
  /\ escrow_sigs = <<>>


\* C13 (rotation driver): in every reachable LogState, whatever fresh key the
\* generator returns, the rotation rotate builds is signed by the promoted
\* next key, verify_and_apply accepts it, and the state it returns has sn one
\* higher, the promoted key as its only current key and the digest of the
\* fresh key as its next-key commitment.
C13_RotationDriver ==
  \A fresh \in FreshKeys :
    LET rot == RotationMessage(state, next_keypair, fresh)
        r == verify_and_apply(state, rot)
    IN /\ rot.signatures
            = <<AttachedSig(Sign(Serialize(rot.event_message), next_keypair), 0)>>
       /\ r.ok
       /\ r.state.sn = state.sn + 1
       /\ r.state.current.public_keys = <<next_keypair>>
       /\ r.state.current.threshold_key_digest = Digest(KeyBytes(fresh))


\* ------------------------------------------------------------------ the store
\* SingleStore::get inside a read transaction: the committed value of k,
\* decoded, or None.
store_get(tbl, k) == IF tbl[k] = NoValue THEN None ELSE Some(Decode(tbl[k]))

\* LMDBTable::put(key, value): one write transaction that inserts the value
\* over whatever the key holds, and commits.
StorePut(k, v) ==
  /\ writer.pc = "idle"
  /\ table' = [table EXCEPT ![k] = Blob(v)]
  /\ store_op' = StoreOp("put", k, Some(v), "Ok", None)
  /\ UNCHANGED <<writer, ls_vars>>

\* LMDBTable::set, line 38: the write transaction is opened on the committed
\* table; io_ok is whether the environment hands one out.
SetBegin(k, v) ==
  /\ writer.pc = "idle"
  /\ \E io_ok \in BOOLEAN :
       IF io_ok
       THEN /\ writer' = [pc |-> "opened", key |-> k, value |-> v, txn |-> table]
            /\ UNCHANGED store_op
       ELSE /\ store_op' = StoreOp("set", k, Some(v), "IoError", None)
            /\ UNCHANGED writer
  /\ UNCHANGED <<table, ls_vars>>

\* LMDBTable::set, line 39: the key is deleted inside the transaction.  The
\* backend reports a key that is not there as an error; the `?` returns it and
\* the dropped transaction is aborted.
SetDelete ==
  /\ writer.pc = "opened"
  /\ IF writer.txn[writer.key] = NoValue
     THEN /\ store_op' = StoreOp("set", writer.key, Some(writer.value), "KeyValuePairNotFound", None)
          /\ writer' = NoWriter
     ELSE /\ writer' = [writer EXCEPT !.pc = "deleted", !.txn[writer.key] = NoValue]
          /\ UNCHANGED store_op
  /\ UNCHANGED <<table, ls_vars>>

\* LMDBTable::set, lines 40-41: the value is put inside the transaction.
SetPut ==
  /\ writer.pc = "deleted"
  /\ writer' = [writer EXCEPT !.pc = "put", !.txn[writer.key] = Blob(writer.value)]
  /\ UNCHANGED <<table, store_op, ls_vars>>

\* LMDBTable::set, line 42: the commit makes the transaction's table the
\* committed one.
SetCommit ==
  /\ writer.pc = "put"
  /\ table' = writer.txn
  /\ store_op' = StoreOp("set", writer.key, Some(writer.value), "Ok", None)
  /\ writer' = NoWriter
  /\ UNCHANGED ls_vars

\* LMDBTable::get(key): a read transaction on the committed table, whatever a
\* writer is doing.
StoreGet(k) ==
  /\ store_op' = StoreOp("get", k, None, "Ok", store_get(table, k))
  /\ UNCHANGED <<table, writer, ls_vars>>

StoreNext ==
  \/ \E k \in StoreKeys, v \in StoreValues : StorePut(k, v)
  \/ \E k \in StoreKeys, v \in StoreValues : SetBegin(k, v)
  \/ SetDelete
  \/ SetPut
  \/ SetCommit
  \/ \E k \in StoreKeys : StoreGet(k)

SpecStore == Init /\ [][StoreNext]_vars

\* C14 (store overwrite): whatever the table held, a call set(k, v) that the
\* environment lets open its transaction returns Ok, and once it has returned
\* get(k) gives exactly v; and a reader never finds absent a key that held a
\* value when the writer began.
C14_StoreOverwrite ==
  /\ [](store_op.op = "set" /\ store_op.res # "IoError"
          => /\ store_op.res = "Ok"
             /\ store_get(table, store_op.key) = store_op.value)
  /\ [][(/\ store_op'.op = "get" /\ store_op' # store_op
         /\ writer.pc \in {"opened", "deleted", "put"}
         /\ store_op'.key = writer.key
         /\ table[writer.key] # NoValue)
          => store_op'.out # None]_vars


\* The next-key commitment to a key set, as new() and rotate compute it for
\* their one next key: the digest of the key's text.
NextKeyCommitment(keys) ==
  IF Len(keys) = 1 THEN Digest(KeyBytes(keys[1]))
  ELSE Digest([i \in 1..Len(keys) |-> KeyBytes(keys[i])])

\* C15 (pre-rotation commitment): once an establishment event has installed
\* a key configuration in the view of the peer, every rotation the receive
\* loop's verify_and_apply accepts into it discloses a key set whose
\* commitment is the threshold_key_digest of that configuration.
C15_PreRotation ==
  \A m \in RemoteMessages(they) :
    (/\ they.current.public_keys # <<>>
     /\ m.event_message.event.event_data.ilk = "rot"
     /\ verify_and_apply(they, m).ok)
      => NextKeyCommitment(m.event_message.event.event_data.key_config.public_keys)
           = they.current.threshold_key_digest


\* The errors add_sig returns.
AddSigErrors ==
  {"not a receipt", "incorrect receipt sn", "incorrect receipt binding",
   "signature threshold not met"}

\* C16 (frame of add_sig): every call of add_sig leaves log, state, keypair
\* and next_keypair as they were; a call that returns an error (the message is
\* no receipt, the log has no entry at the receipt's sn, a binding fails, or
\* the signatures do not verify) leaves sigs_map and escrow_sigs as they were
\* too; and a receipt whose receipted digest is not the digest of the log
\* event at its sn gets an error.
C16_AddSigFrame ==
  /\ [](\A r \in Receipts(they) \cup AddSigInputs(they) :
          (RData(r).ilk = "vrc" /\ RSn(r) + 1 \in DOMAIN log /\ ~BoundToEvent(r))
            => add_sig(log, state, they, r) = "incorrect receipt binding")
  /\ [][\A r \in AddSigInputs(they) :
          AddSig(r) =>
            /\ UNCHANGED <<log, state, keypair, next_keypair>>
            /\ add_sig(log, state, they, r) \in AddSigErrors
                 => /\ UNCHANGED <<sigs_map, escrow_sigs>>
                    /\ last_op' = Op("add_sig", add_sig(log, state, they, r))]_vars

\* C16 witness: a receipt is held, and a receipt with a tampered receipted
\* digest has just been rejected with the binding error.
C16_Witness ==
  /\ Stored >= 1
  /\ last_op = Op("add_sig", "incorrect receipt binding")


\* The key pairs a LogState holds are the ones its state names: keypair is the
\* one current key, next_keypair the key the state commits to, and a receipt
\* make_rct issues of the LogState's own last event verifies under the state's
\* current key configuration.
KeysConsistent(ls) ==
  /\ ls.state.current.public_keys = <<ls.keypair>>
  /\ ls.state.current.threshold_key_digest = Digest(KeyBytes(ls.next_keypair))
  /\ LET em == ls.log[Len(ls.log)].event_message IN
     /\ make_rct(ls, em).signatures = <<AttachedSig(Sign(Serialize(em), ls.keypair), 0)>>
     /\ verify(ls.state, sign(em, make_rct(ls, em).signatures))

\* C17 (signing-key consistency): in every LogState reached by new() and any
\* calls of rotate, failed or not, keypair is state.current.public_keys[0] and
\* the digest of next_keypair is state.current.threshold_key_digest, so a
\* receipt make_rct issues is signed by the key current in the issuer's state;
\* the same holds of the LogState rotate leaves once its rotation is folded,
\* and no call of rotate that fails changes either key pair.
C17_KeyConsistency ==
  /\ [](/\ KeysConsistent(Self)
        /\ \A f \in FreshKeys : KeysConsistent(Promoted(Self, f)))
  /\ [][(last_op'.op = "rotate" /\ last_op'.res # "ok")
          => UNCHANGED <<keypair, next_keypair>>]_vars

\* C17 witness: rotate has been called and refused, and the key pairs are the
\* ones the state names.
C17_Witness ==
  /\ last_op.op = "rotate" /\ last_op.res # "ok"
  /\ state.current.public_keys = <<keypair>>
  /\ state.current.threshold_key_digest = Digest(KeyBytes(next_keypair))


\* C18 (one receipt per witness per event): the collection sigs_map[sn] never
\* holds two receipts whose seals name the same validator prefix.
C18_OneReceiptPerWitness ==
  \A n \in DOMAIN sigs_map : \A i, j \in DOMAIN sigs_map[n] :
    i # j => RSeal(sigs_map[n][i]).prefix # RSeal(sigs_map[n][j]).prefix


\* The receipts add_sig is examined on that are about an event the log holds.
ReceiptsInLog ==
  {r \in Receipts(they) \cup AddSigInputs(they) : RSn(r) + 1 \in DOMAIN log}

\* C19 (receipts and own rotation commute): for a receipt about an event the
\* log holds and a fixed view of the validator, add_sig gives the same outcome
\* on the LogState as it is and on the LogState rotate leaves once its
\* rotation is folded; a call of rotate, failed or not, leaves sigs_map and
\* escrow_sigs alone and changes the outcome of add_sig for none of these
\* receipts; and a call of add_sig changes nothing rotate reads, so the
\* rotation rotate builds is the same before and after it.
C19_RotateCommutes ==
  /\ [](\A f \in FreshKeys :
          LET p == Promoted(Self, f) IN
          \A r \in ReceiptsInLog :
            add_sig(p.log, p.state, they, r) = add_sig(log, state, they, r))
  /\ [][last_op'.op = "rotate"
          => /\ UNCHANGED <<sigs_map, escrow_sigs>>
             /\ \A r \in {x \in AddSigInputs(they) : RSn(x) + 1 \in DOMAIN log} :
                  add_sig(log', state', they', r) = add_sig(log, state, they, r)]_vars
  /\ [][last_op'.op = "add_sig"
          => /\ FreshKeys' = FreshKeys
             /\ \A f \in FreshKeys :
                  RotationMessage(state', next_keypair', f)
                    = RotationMessage(state, next_keypair, f)]_vars

\* C19 witness: one receipt is recorded and one is in escrow, and rotate has
\* just been called.
C19_Witness ==
  /\ last_op.op = "rotate"
  /\ sigs_map[0] # <<>>
  /\ escrow_sigs # <<>>


\* ------------------------------------------------------- the sn at its maximum
\* The messages the peer sends while the local view of it is st: its
\* inception; an interaction at every sequence number, signed by the keys in
\* force; an interaction at the next one, unsigned; and, while the keys of
\* its inception are in force, a rotation at every sequence number (the peer
\* rotates once).
WrapMessages(st) ==
  {sign(PeerIcp, SigsBy(Serialize(PeerIcp), <<101>>)),
   sign(to_message(IxnEvent(st.prefix, (st.sn + 1) % U64Mod)), <<>>)}
  \cup {sign(to_message(IxnEvent(st.prefix, n)),
             SigsBy(Serialize(to_message(IxnEvent(st.prefix, n))), st.current.public_keys)) :
          n \in 0..U64Max}
  \cup (IF st.current # PeerKeyConfig THEN {}
        ELSE {sign(to_message(RotEvent(st.prefix, n, kc, Digest(st.last))),
                   SigsBy(Serialize(to_message(RotEvent(st.prefix, n, kc, Digest(st.last)))),
                          st.current.public_keys)) :
                n \in 0..U64Max, kc \in RemoteRotKCs})

OverflowPanic == "attempt to add with overflow"

\* The fold of m reaches the addition state.sn + 1 of Event::apply_to with
\* state.sn at its maximum: m has passed the gate, is no inception and carries
\* the state's prefix.
Overflows(st, m) ==
  /\ KeyConfig_verify(GateKeyConfig(st, m), Serialize(m.event_message), m.signatures)
  /\ m.event_message.event.event_data.ilk # "icp"
  /\ m.event_message.event.prefix = st.prefix
  /\ st.sn = U64Max

\* The receive loop's fold branch with the build's treatment of overflow:
\* with overflow checks the addition at the maximum aborts the process,
\* without them it wraps to 0.
WrapApply(m) ==
  \E overflow_checks \in BOOLEAN :
    LET r == verify_and_apply(they, m)
    IN /\ IF overflow_checks /\ Overflows(they, m)
          THEN /\ they' = they
               /\ last_op' = Op("verify_and_apply", OverflowPanic)
          ELSE /\ they' = IF r.ok THEN r.state ELSE they
               /\ last_op' = Op("verify_and_apply", IF r.ok THEN "ok" ELSE r.err)
       /\ UNCHANGED <<log, sigs_map, state, keypair, next_keypair, escrow_sigs>>
       /\ UNCHANGED store_vars

WrapNext == \E m \in WrapMessages(they) : WrapApply(m)

SpecWrap == Init /\ [][WrapNext]_vars

\* C20 (no sn wrap-around): when the state's sn is the largest u64 the fold
\* rejects every event that is no inception; the receive loop answers such an
\* event with an error and not with an abort; and along the events it accepts
\* once the prefix is set the state's sn strictly increases.
C20_NoWrap ==
  /\ [](they.sn = U64Max =>
          \A m \in WrapMessages(they) :
            m.event_message.event.event_data.ilk # "icp"
              => ~Event_apply_to(m.event_message.event, they).ok)
  /\ [][last_op'.res # OverflowPanic]_vars
  /\ [][(/\ last_op' = Op("verify_and_apply", "ok")
         /\ they.prefix # Unset
         /\ they' # they)
          => they'.sn > they.sn]_vars

====
